---- MODULE Spec2Model ----
(***************************************************************************)
(* SentenceVAE (src/model.py): the encoder / reparameterize / decoder      *)
(* pipeline and the autoregressive inference loop, modelled at the level   *)
(* of tensor shapes, tensor element provenance, index sets and tokens.     *)
(*                                                                         *)
(* A tensor is a record [shape |-> <<d1,...,dr>>, data |-> <<...>>] whose  *)
(* data lists the elements in row-major (contiguous) order.  Code indices  *)
(* are 0-based; TLA+ sequences are 1-based, so element i of the code is    *)
(* element i+1 of the sequence.                                            *)
(***************************************************************************)
EXTENDS Integers, Sequences, FiniteSets, TLC

VARIABLES
    num_layers,          \* self.num_layers
    bidirectional,       \* self.bidirectional
    max_sequence_length, \* self.max_sequence_length
    word_dropout_rate,   \* self.word_dropout_rate, in units of 1/ProbLevels
    op,                  \* the method in progress or last called
    pc,                  \* "idle" | "loop" | "done" | "error"
    err,                 \* the exception raised, "none" if none
    batch_size,          \* inference: batch_size
    hidden,              \* inference: hidden (tensor)
    input_sequence,      \* inference: input_sequence (token per local slot)
    sequence_running,    \* inference: global indices still generating
    sequence_mask,       \* inference: per global row, still generating
    running_seqs,        \* inference: local indices still generating
    generations,         \* inference: the output buffer, rows of tokens
    t,                   \* inference: timestep
    written,             \* inference: cells <<row, col>> stored by _save_sample
    ret                  \* encoder/decoder/reparameterize/forward: what the call computed

vars == <<num_layers, bidirectional, max_sequence_length, word_dropout_rate, op, pc, err,
          batch_size, hidden, input_sequence, sequence_running, sequence_mask,
          running_seqs, generations, t, written, ret>>

confVars == <<num_layers, bidirectional, max_sequence_length, word_dropout_rate>>

infVars == <<batch_size, hidden, input_sequence, sequence_running, sequence_mask,
             running_seqs, generations, t, written>>

-----------------------------------------------------------------------------
(* Bounds of the model *)
MaxBatch == 2
MaxLen == 2
MaxLayers == 2
ProbLevels == 2

(* Construction parameters, fixed for the model *)
vocab_size == 4
hidden_size == 2
latent_size == 2
pad_idx == 0
unk_idx == 1
sos_idx == 2
eos_idx == 3

Vocab == 0 .. (vocab_size - 1)

\* self.hidden_factor = (2 if bidirectional else 1) * num_layers
hidden_factor == (IF bidirectional THEN 2 ELSE 1) * num_layers

-----------------------------------------------------------------------------
(* Python name resolution *)

\* The names bound at module level of model.py: the imports and the class.
ModuleGlobals == {"torch", "nn", "rnn_utils", "to_var", "SentenceVAE"}

\* A free name of a method body resolves to a local, then to a module global,
\* and raises NameError otherwise.
NameResolves(name, locals) == name \in locals \/ name \in ModuleGlobals

\* Locals of reparameterize(self, bs, mean, logv) when line 77 runs.
reparameterize_locals == {"self", "bs", "mean", "logv", "std"}

\* Locals of forward(self, input_seq, length) when line 134 runs.
forward_locals == {"self", "input_seq", "length", "batch_size", "sorted_lengths", "sorted_idx"}

\* Locals of decoder(self, x, x_embed, z, sorted_lengths) when line 118 runs: the
\* parameters, bs and hidden (85-92), packed_x (109), x_tilde and _ (113), and,
\* only when the word-dropout branch of line 95 was taken, prob and decoder_x.
decoder_locals ==
    {"self", "x", "x_embed", "z", "sorted_lengths", "bs", "hidden",
     "packed_x", "x_tilde", "_"}
    \cup (IF word_dropout_rate > 0 THEN {"prob", "decoder_x"} ELSE {})

-----------------------------------------------------------------------------
(* Tensors *)

RECURSIVE Prod(_)
Prod(shape) == IF shape = <<>> THEN 1 ELSE Head(shape) * Prod(Tail(shape))

RECURSIVE SqueezeShape(_)
\* Tensor.squeeze(): drops every dimension of size 1
SqueezeShape(shape) ==
    IF shape = <<>> THEN <<>>
    ELSE IF Head(shape) = 1 THEN SqueezeShape(Tail(shape))
         ELSE <<Head(shape)>> \o SqueezeShape(Tail(shape))

\* Tensor.squeeze(): same elements, every dimension of size 1 removed
Squeeze(T) == [shape |-> SqueezeShape(T.shape), data |-> T.data]

\* Tensor.unsqueeze(0): same elements, a leading dimension of size 1
Unsqueeze0(T) == [shape |-> <<1>> \o T.shape, data |-> T.data]

\* Tensor.view(shape): same elements in the same contiguous order
View(T, shape) == [shape |-> shape, data |-> T.data]

\* A (rows, cols) tensor whose row r holds cols copies of label[r+1]
RowTensor(labels, cols) ==
    [shape |-> <<Len(labels), cols>>,
     data  |-> [i \in 1 .. (Len(labels) * cols) |-> labels[((i - 1) \div cols) + 1]]]

\* Row r (0-based) of a 2-D tensor
Row(T, r) == SubSeq(T.data, r * T.shape[2] + 1, (r + 1) * T.shape[2])

\* Element (l, i, h) (0-based) of a 3-D tensor
Elem3(T, l, i, h) == T.data[(l * T.shape[2] + i) * T.shape[3] + h + 1]

\* nn.Linear(in, out) on a 2-D tensor: row r of the result is a function of row r
\* of the input alone; it carries the provenance of that row's first element.
Linear(T, out) ==
    RowTensor([r \in 1 .. T.shape[1] |-> Row(T, r - 1)[1]], out)

\* T[:, idx] on a 3-D tensor: the slots idx (0-based) of axis 1, in that order
IndexAxis1(T, idx) ==
    LET a == T.shape[1]
        k == Len(idx)
        h == T.shape[3]
    IN [shape |-> <<a, k, h>>,
        data  |-> [j \in 1 .. (a * k * h) |->
                      Elem3(T, (j - 1) \div (k * h),
                               idx[(((j - 1) \div h) % k) + 1],
                               (j - 1) % h)]]

-----------------------------------------------------------------------------
(* Index and mask helpers *)

\* torch.arange(0, n)
arange(n) == [i \in 1 .. n |-> i - 1]

RECURSIVE masked_select(_, _)
\* Tensor.masked_select(mask): the elements whose mask bit is set, in order
masked_select(s, mask) ==
    IF s = <<>> THEN <<>>
    ELSE (IF Head(mask) THEN <<Head(s)>> ELSE <<>>) \o masked_select(Tail(s), Tail(mask))

\* s[idx]: index_select with a 0-based index list
index_select(s, idx) == [i \in 1 .. Len(idx) |-> s[idx[i] + 1]]

\* mask[idx] = values (line 188)
mask_assign(mask, idx, values) ==
    [r \in 1 .. Len(mask) |->
        IF \E i \in 1 .. Len(idx) : idx[i] = r - 1
        THEN values[CHOOSE i \in 1 .. Len(idx) : idx[i] = r - 1]
        ELSE mask[r]]

\* not_eos with the comparison made against the pad id instead of the eos id
not_eos_pad_sentinel(sample) == [i \in 1 .. Len(sample) |-> sample[i] # pad_idx]

\* (input_sequence != self.eos_idx)
not_eos(sample) == [i \in 1 .. Len(sample) |-> sample[i] # eos_idx]

-----------------------------------------------------------------------------
(* inference (lines 143-202), _sample (204-214), _save_sample (216-224) *)

\* An element of the inference hidden state: the sequence whose latent it was
\* projected from, and the input tokens the recurrent steps have folded into it.
latent_rows(n) == [b \in 1 .. n |-> [seq |-> b - 1, fed |-> <<>>]]

\* Lines 151-157: project z, unflatten when hidden_factor > 1, then unsqueeze(0)
\* unconditionally.
inference_hidden(n) ==
    LET z  == RowTensor(latent_rows(n), latent_size)
        h0 == Linear(z, hidden_size * hidden_factor)
        h1 == IF bidirectional \/ num_layers > 1
              THEN View(h0, <<hidden_factor, n, hidden_size>>)
              ELSE h0
    IN Unsqueeze0(h1)

\* Line 166: a (batch_size, max_sequence_length) buffer filled with pad_idx
empty_generations(n) == [r \in 1 .. n |-> [c \in 1 .. max_sequence_length |-> pad_idx]]

\* Line 169: the while condition
loop_cond(tt, rs) == tt < max_sequence_length /\ Len(rs) > 0

\* Lines 171-172: the input of step tt is sos for the whole batch at tt = 0,
\* otherwise what the previous iteration left in input_sequence.
step_input(tt, inp, n) == IF tt = 0 THEN [i \in 1 .. n |-> sos_idx] ELSE inp

\* Line 178: decoder_rnn(input_embedding, hidden) with batch_first input of shape
\* (k, 1, embedding) accepts only a hidden state of shape (hidden_factor, k, hidden_size).
rnn_accepts(inp, hid) == hid.shape = <<hidden_factor, Len(inp), hidden_size>>

\* Line 178: the new hidden state; slot i folds in input i.
rnn_step(hid, inp) ==
    [shape |-> hid.shape,
     data  |-> [j \in 1 .. Len(hid.data) |->
                  LET i == ((j - 1) \div hid.shape[3]) % hid.shape[2]
                  IN [seq |-> hid.data[j].seq,
                      fed |-> Append(hid.data[j].fed, inp[i + 1])]]]

\* _sample: topk over the vocabulary axis of (k, 1, vocab) logits gives (k, 1, 1);
\* squeeze; a 0-d result is viewed as 1-D.  The length of the returned vector.
sample_len(k) ==
    LET s == SqueezeShape(<<k, 1, 1>>)
    IN IF Len(s) = 0 THEN 1 ELSE s[1]

\* _save_sample: save_to[running][:, t] = sample, written back to save_to[running].
\* A one-element sample broadcasts over the selected rows.
_save_sample(save_to, sample, running, tt) ==
    LET val(i) == IF Len(sample) = 1 THEN sample[1] ELSE sample[i]
        running_latest == [i \in 1 .. Len(running) |->
                              [save_to[running[i] + 1] EXCEPT ![tt + 1] = val(i)]]
    IN [r \in 1 .. Len(save_to) |->
          IF \E i \in 1 .. Len(running) : running[i] = r - 1
          THEN running_latest[CHOOSE i \in 1 .. Len(running) : running[i] = r - 1]
          ELSE save_to[r]]

\* The cells _save_sample stores into
saved_cells(running, tt) == {<<running[i], tt>> : i \in 1 .. Len(running)}

\* Lines 188-189: the global running set after the sample
global_update(mask, running, sample) == mask_assign(mask, running, not_eos(sample))

\* Lines 192-193: the local running set after the sample
local_update(rs, sample) == masked_select(rs, not_eos(sample))

\* Lines 145-168: everything before the loop
Inference(n) ==
    /\ pc = "idle"
    /\ op' = "inference"
    /\ pc' = "loop"
    /\ batch_size' = n
    /\ hidden' = inference_hidden(n)
    /\ sequence_running' = arange(n)
    /\ sequence_mask' = [r \in 1 .. n |-> TRUE]
    /\ running_seqs' = arange(n)
    /\ generations' = empty_generations(n)
    /\ t' = 0
    /\ input_sequence' = <<>>
    /\ written' = {}
    /\ UNCHANGED <<confVars, err, ret>>

\* Lines 169-200: one iteration of the loop with a hidden state the recurrent
\* network accepts; the sampler may return any token for any slot.
LoopStep ==
    /\ pc = "loop"
    /\ loop_cond(t, running_seqs)
    /\ LET inp == step_input(t, input_sequence, batch_size)
       IN /\ rnn_accepts(inp, hidden)
          /\ \E sample \in [1 .. sample_len(Len(inp)) -> Vocab] :
               LET hid1  == rnn_step(hidden, inp)
                   mask1 == global_update(sequence_mask, sequence_running, sample)
                   rs1   == local_update(running_seqs, sample)
               IN /\ generations' = _save_sample(generations, sample, sequence_running, t)
                  /\ written' = written \cup saved_cells(sequence_running, t)
                  /\ sequence_mask' = mask1
                  /\ sequence_running' = masked_select(arange(batch_size), mask1)
                  /\ IF Len(rs1) > 0
                     THEN /\ input_sequence' = index_select(sample, rs1)
                          /\ hidden' = IndexAxis1(hid1, rs1)
                          /\ running_seqs' = arange(Len(rs1))
                     ELSE /\ input_sequence' = sample
                          /\ hidden' = hid1
                          /\ running_seqs' = rs1
    /\ t' = t + 1
    /\ UNCHANGED <<confVars, op, pc, err, batch_size, ret>>

\* Line 178 with a hidden state of the wrong shape: the recurrent network raises.
LoopRaise ==
    /\ pc = "loop"
    /\ loop_cond(t, running_seqs)
    /\ ~rnn_accepts(step_input(t, input_sequence, batch_size), hidden)
    /\ pc' = "error"
    /\ err' = "RuntimeError"
    /\ UNCHANGED <<confVars, op, infVars, ret>>

\* Line 169 false, line 202: return generations, z
LoopExit ==
    /\ pc = "loop"
    /\ ~loop_cond(t, running_seqs)
    /\ pc' = "done"
    /\ UNCHANGED <<confVars, op, err, infVars, ret>>

NoTensor == [shape |-> <<0>>, data |-> <<>>]

InitCall ==
    /\ op = "none"
    /\ pc = "idle"
    /\ err = "none"
    /\ batch_size = 0
    /\ hidden = NoTensor
    /\ input_sequence = <<>>
    /\ sequence_running = <<>>
    /\ sequence_mask = <<>>
    /\ running_seqs = <<>>
    /\ generations = <<>>
    /\ t = 0
    /\ written = {}
    /\ ret = [none |-> TRUE]

\* After construction; inference never reads word_dropout_rate.
Init ==
    /\ num_layers \in 1 .. MaxLayers
    /\ bidirectional \in BOOLEAN
    /\ max_sequence_length \in 1 .. MaxLen
    /\ word_dropout_rate = 0
    /\ InitCall

Next ==
    \/ \E n \in 0 .. MaxBatch : Inference(n)
    \/ LoopStep
    \/ LoopRaise
    \/ LoopExit

Spec == Init /\ [][Next]_vars

-----------------------------------------------------------------------------
(* encoder (51-68), reparameterize (71-80), decoder (83-127), forward (130-140) *)

\* Line 59: the final hidden state of encoder_rnn, shape (hidden_factor, bs, hidden_size);
\* element (l, b, .) is the layer/direction-l vector of sequence b.
encoder_rnn_hidden(bs) ==
    [shape |-> <<hidden_factor, bs, hidden_size>>,
     data  |-> [j \in 1 .. (hidden_factor * bs * hidden_size) |->
                  [layer |-> (j - 1) \div (bs * hidden_size),
                   seq   |-> ((j - 1) \div hidden_size) % bs]]]

\* Lines 61-65: flatten hidden state
encoder_flatten(hid, bs) ==
    IF bidirectional \/ num_layers > 1
    THEN View(hid, <<bs, hidden_size * hidden_factor>>)
    ELSE Squeeze(hid)

\* Lines 86-92: the decoder's unflatten of a flat hidden state
decoder_unflatten(flat, bs) ==
    IF bidirectional \/ num_layers > 1
    THEN View(flat, <<hidden_factor, bs, hidden_size>>)
    ELSE Unsqueeze0(flat)

\* Line 68: hidden2mean / hidden2logv map the last axis hidden_size * hidden_factor
\* to latent_size and keep the leading axes.
projection_shape(shape) ==
    IF Len(shape) > 0 /\ shape[Len(shape)] = hidden_size * hidden_factor
    THEN SubSeq(shape, 1, Len(shape) - 1) \o <<latent_size>>
    ELSE <<>>

Encoder(bs) ==
    /\ pc = "idle"
    /\ op' = "encoder"
    /\ pc' = "done"
    /\ LET hid  == encoder_rnn_hidden(bs)
           flat == encoder_flatten(hid, bs)
       IN ret' = [bs |-> bs, rnn_hidden |-> hid, flat |-> flat,
                  mean_shape |-> projection_shape(flat.shape)]
    /\ UNCHANGED <<confVars, err, infVars>>

\* Line 77: torch.randn([batch_size, self.latent_size]) names batch_size, which is
\* neither a parameter nor a local of reparameterize.
reparameterize(bs) ==
    IF NameResolves("batch_size", reparameterize_locals)
    THEN [status |-> "returned", z_shape |-> <<bs, latent_size>>]
    ELSE [status |-> "NameError", z_shape |-> <<>>]

Reparameterize(bs) ==
    /\ pc = "idle"
    /\ op' = "reparameterize"
    /\ LET r == reparameterize(bs)
       IN /\ pc' = IF r.status = "returned" THEN "done" ELSE "error"
          /\ err' = IF r.status = "returned" THEN "none" ELSE r.status
          /\ ret' = [bs |-> bs, z_shape |-> r.z_shape]
    /\ UNCHANGED <<confVars, infVars>>

\* protected with the pad id forgotten
protected_sos_only(tok) == (tok - sos_idx) = 0

\* Line 103: the protected positions, (x - sos_idx) * (x - pad_idx) == 0
protected(tok) == (tok - sos_idx) * (tok - pad_idx) = 0

\* Lines 95-106: the tokens the decoder embeds.  rate and the draws of torch.rand
\* (uniform on [0, 1)) are in units of 1/ProbLevels; a protected position has its
\* draw overwritten with 1.
word_dropout(x, rate, draw) ==
    IF rate > 0
    THEN [r \in 1 .. Len(x) |-> [c \in 1 .. Len(x[r]) |->
            LET prob == IF protected(x[r][c]) THEN ProbLevels ELSE draw[r][c]
            IN IF prob < rate THEN unk_idx ELSE x[r][c]]]
    ELSE x

\* Lines 116-119: the outputs are never reordered; line 118 names sorted_idx,
\* which is neither a parameter nor a local of decoder.
decoder_status ==
    IF NameResolves("sorted_idx", decoder_locals) /\ NameResolves("padded_outputs", decoder_locals)
    THEN "returned" ELSE "NameError"

Decoder(x, draw) ==
    /\ pc = "idle"
    /\ op' = "decoder"
    /\ pc' = IF decoder_status = "returned" THEN "done" ELSE "error"
    /\ err' = IF decoder_status = "returned" THEN "none" ELSE decoder_status
    /\ LET bs == Len(x)
           z  == RowTensor([b \in 1 .. bs |-> [layer |-> 0, seq |-> b - 1]], latent_size)
       IN ret' = [x |-> x,
                  draw |-> IF word_dropout_rate > 0 THEN draw ELSE <<>>,
                  decoder_x |-> word_dropout(x, word_dropout_rate, draw),
                  hidden |-> decoder_unflatten(Linear(z, hidden_size * hidden_factor), bs)]
    /\ UNCHANGED <<confVars, infVars>>

\* Line 133: torch.sort(length, descending=True) returns some permutation (0-based)
\* that puts the lengths in non-increasing order; the order of ties is unspecified.
IsDescendingSort(length, idx) ==
    /\ Len(idx) = Len(length)
    /\ \A i \in 1 .. Len(length) : \E j \in 1 .. Len(idx) : idx[j] = i - 1
    /\ \A j \in 1 .. (Len(idx) - 1) : length[idx[j] + 1] >= length[idx[j + 1] + 1]

\* Lines 132-140: forward stops at the first statement that raises.  Line 134 names
\* input_sequence (the parameter is input_seq); line 137 calls reparameterize; line
\* 138 passes five arguments to decoder, which takes four.
forward_status(bs) ==
    IF ~NameResolves("input_sequence", forward_locals) THEN "NameError"
    ELSE IF reparameterize(bs).status # "returned" THEN reparameterize(bs).status
    ELSE "TypeError"

Forward(length, idx) ==
    /\ pc = "idle"
    /\ IsDescendingSort(length, idx)
    /\ op' = "forward"
    /\ pc' = "error"
    /\ err' = forward_status(Len(length))
    /\ ret' = [length |-> length,
               sorted_idx |-> idx,
               sorted_lengths |-> index_select(length, idx),
               outputs |-> <<>>]
    /\ UNCHANGED <<confVars, infVars>>

\* After construction; the training path never reads max_sequence_length.
InitTrain ==
    /\ num_layers \in 1 .. MaxLayers
    /\ bidirectional \in BOOLEAN
    /\ max_sequence_length = MaxLen
    /\ word_dropout_rate \in 0 .. ProbLevels
    /\ InitCall

\* The decoder's x is a (bs, 1) batch: word dropout treats every position alone.
NextTrain ==
    \/ \E bs \in 1 .. MaxBatch : Encoder(bs)
    \/ \E bs \in 1 .. MaxBatch : Reparameterize(bs)
    \/ \E bs \in 1 .. MaxBatch :
         \E x \in [1 .. bs -> [1 .. 1 -> Vocab]] :
           \E draw \in [1 .. bs -> [1 .. 1 -> 0 .. (ProbLevels - 1)]] :
             Decoder(x, draw)
    \/ \E bs \in 1 .. MaxBatch :
         \E length \in [1 .. bs -> 1 .. MaxLen] :
           \E idx \in [1 .. bs -> 0 .. (bs - 1)] :
             Forward(length, idx)

SpecTrain == InitTrain /\ [][NextTrain]_vars

-----------------------------------------------------------------------------
(* Properties of inference *)

RunningSet == {sequence_running[i] : i \in 1 .. Len(sequence_running)}

\* The elements of tensor T whose index along axis 1 (0-based) is i
slot_elems(T, i) ==
    LET inner == Prod(SubSeq(T.shape, 3, Len(T.shape)))
    IN {T.data[j] : j \in {j \in 1 .. Len(T.data) : ((j - 1) \div inner) % T.shape[2] = i}}

\* C1: a call of inference with batch_size >= 1 that has left the loop has returned,
\* and the buffer it returns has batch_size rows of max_sequence_length tokens, every
\* row either holding an eos token at some position p, stored by the loop, with pad
\* ids at all later positions (which the loop never stored into), or holding no eos
\* token and a stored sample at every position.
C1_GenerationRows ==
    (op = "inference" /\ batch_size >= 1 /\ pc # "loop") =>
        /\ pc = "done"
        /\ Len(generations) = batch_size
        /\ \A r \in 1 .. batch_size :
             /\ Len(generations[r]) = max_sequence_length
             /\ \/ \E p \in 1 .. max_sequence_length :
                     /\ generations[r][p] = eos_idx
                     /\ \A q \in 1 .. p : <<r - 1, q - 1>> \in written
                     /\ \A q \in (p + 1) .. max_sequence_length :
                          generations[r][q] = pad_idx /\ <<r - 1, q - 1>> \notin written
                \/ /\ \A p \in 1 .. max_sequence_length : generations[r][p] # eos_idx
                   /\ \A p \in 1 .. max_sequence_length : <<r - 1, p - 1>> \in written

\* C3: t counts the iterations and never exceeds max_sequence_length, and once the
\* loop has been left, it was left by its condition: t = max_sequence_length or no
\* sequence is running, with no iteration run for an empty batch and, when left
\* before max_sequence_length, an eos stored in the last iteration.
C3_LoopTerminates ==
    (op = "inference") =>
        /\ t <= max_sequence_length
        /\ (pc # "loop" =>
              /\ pc = "done"
              /\ (t = max_sequence_length \/ Len(sequence_running) = 0)
              /\ (batch_size = 0 => t = 0)
              /\ (t < max_sequence_length /\ batch_size > 0 =>
                    \E r \in 1 .. batch_size : generations[r][t] = eos_idx))

\* C4: in every step of the loop the global running set loses members and gains none,
\* and in an iteration a running sequence stays running exactly when the token stored
\* for it in this iteration is not eos.
C4_RunningShrinks ==
    [][pc = "loop" =>
         /\ RunningSet' \subseteq RunningSet
         /\ Len(sequence_running') <= Len(sequence_running)
         /\ (t' = t + 1 =>
               \A r \in RunningSet :
                  (r \in RunningSet') <=> (generations'[r + 1][t + 1] # eos_idx))]_vars

\* C4 witness: after the first iteration of a batch of two, sequence 0 has sampled eos
\* and left the running set while sequence 1 is still running.
C4_Witness ==
    /\ op = "inference" /\ pc = "loop" /\ t = 1
    /\ batch_size = 2
    /\ generations[1][1] = eos_idx
    /\ sequence_running = <<1>>

\* C8: at the start of every iteration the next input and the hidden state have one
\* slot per globally running sequence; slot i carries the state of the i-th running
\* sequence, built from that sequence's own inputs; the input of slot i is sos at
\* t = 0 and otherwise the token stored in that sequence's row at column t-1; and
\* every earlier sample of a running sequence was stored in its own row.
C8_LocalSlots ==
    (op = "inference" /\ pc = "loop" /\ loop_cond(t, running_seqs)) =>
        LET inp == step_input(t, input_sequence, batch_size)
            k   == Len(sequence_running)
        IN /\ Len(inp) = k
           /\ Len(running_seqs) = k
           /\ Len(hidden.shape) >= 2 /\ hidden.shape[2] = k
           /\ \A i \in 1 .. k :
                LET row == generations[sequence_running[i] + 1]
                IN /\ inp[i] = (IF t = 0 THEN sos_idx ELSE row[t])
                   /\ \A c \in 0 .. (t - 1) : <<sequence_running[i], c>> \in written
                   /\ \A e \in slot_elems(hidden, i - 1) :
                        /\ e.seq = sequence_running[i]
                        /\ e.fed = (IF t = 0 THEN <<>>
                                    ELSE <<sos_idx>> \o SubSeq(row, 1, t - 1))

\* C9: at the start of every iteration the hidden state has shape
\* (hidden_factor, k, hidden_size) with k the number of running sequences, and
\* k = batch_size at t = 0.
C9_HiddenShape ==
    (op = "inference" /\ pc = "loop" /\ loop_cond(t, running_seqs)) =>
        /\ hidden.shape = <<hidden_factor, Len(sequence_running), hidden_size>>
        /\ (t = 0 => Len(sequence_running) = batch_size)

-----------------------------------------------------------------------------
(* Properties of the training path *)

\* C2: forward returns, and row i of what it returns belongs to input sequence i.
C2_ForwardOrder ==
    (op = "forward") =>
        /\ pc = "done"
        /\ err = "none"
        /\ Len(ret.outputs) = Len(ret.length)
        /\ \A i \in 1 .. Len(ret.length) : ret.outputs[i] = i - 1

\* C5: with rate 0 the decoder's tokens are its input tokens; with rate 1 every token
\* that is neither sos nor pad becomes unk; at any rate and any draw a token equal to
\* sos or pad is kept.
C5_WordDropout ==
    (op = "decoder") =>
        \A r \in 1 .. Len(ret.x) : \A c \in 1 .. Len(ret.x[r]) :
            LET tok == ret.x[r][c]
                out == ret.decoder_x[r][c]
            IN /\ (word_dropout_rate = 0 => out = tok)
               /\ (word_dropout_rate = ProbLevels /\ tok \notin {sos_idx, pad_idx} => out = unk_idx)
               /\ (tok \in {sos_idx, pad_idx} => out = tok)

\* C5 witness: at rate 1 a batch with a pad token and an eos token comes out with the
\* pad kept and the eos replaced by unk.
C5_Witness ==
    /\ op = "decoder"
    /\ word_dropout_rate = ProbLevels
    /\ ret.x = <<<<pad_idx>>, <<eos_idx>>>>
    /\ ret.decoder_x = <<<<pad_idx>>, <<unk_idx>>>>

\* C6: with one layer and one direction the encoder's flattened hidden state has
\* shape (batch, hidden_size).
C6_FlattenKeepsBatch ==
    (op = "encoder" /\ num_layers = 1 /\ ~bidirectional) =>
        ret.flat.shape = <<ret.bs, hidden_size>>

\* C7: reparameterize returns z of shape (bs, latent_size) for the bs it was passed.
C7_ReparameterizeShape ==
    (op = "reparameterize") =>
        /\ pc = "done"
        /\ ret.z_shape = <<ret.bs, latent_size>>

\* C10: the b-th run of hidden_size * hidden_factor consecutive elements of the
\* flattened encoder state holds the vectors of every layer/direction of sequence b
\* and of no other sequence, and where the flattened state is 2-D the decoder's
\* unflatten gives the recurrent network's hidden state back.
C10_FlattenPerSequence ==
    (op = "encoder") =>
        LET width == hidden_size * hidden_factor
            chunk(b) == SubSeq(ret.flat.data, b * width + 1, (b + 1) * width)
        IN /\ \A b \in 0 .. (ret.bs - 1) :
                /\ \A j \in 1 .. width : chunk(b)[j].seq = b
                /\ {chunk(b)[j].layer : j \in 1 .. width} = 0 .. (hidden_factor - 1)
           /\ (ret.flat.shape = <<ret.bs, width>> =>
                 decoder_unflatten(ret.flat, ret.bs) = ret.rnn_hidden)

====
